---------------------------- MODULE Spec2Model ----------------------------
(***************************************************************************)
(* ArcExporter.py: the export of an Arc sidebar document (spaces, pinned   *)
(* folders and tabs) to a Netscape bookmarks file.                         *)
(*                                                                         *)
(* Values.  A JSON object is a record that carries the set of its keys in  *)
(* the field "keys"; a field whose key is not in "keys" is absent and its  *)
(* slot holds a filler that is never read (Get* operators read through     *)
(* "keys", as dict.get and "in" do).  A text (a title, a URL) is a         *)
(* sequence of characters, each a one-token string; the empty sequence is  *)
(* the empty string.  An identifier is a string.  Python's None is the     *)
(* value None where an identifier is expected.                             *)
(***************************************************************************)
EXTENDS Integers, Sequences, FiniteSets, TLC

VARIABLES
    input,            \* what main finds at the input path: "missing", "invalid", "ok"
    data,             \* the parsed document (load_arc_data's return value)
    pc,               \* main's / export_bookmarks' position
    last_container,   \* export_bookmarks: containers[-1]
    spaces,           \* export_bookmarks: the list of space_info records
    items_by_id,      \* export_bookmarks: the item dictionary, in insertion order
    html_lines,       \* export_bookmarks: the lines of the document
    total_folders,    \* export_bookmarks: counter
    total_bookmarks,  \* export_bookmarks: counter
    space_i,          \* export_bookmarks: position of "for space in spaces"
    result,           \* main: what export_bookmarks returned
    output_file,      \* arc_bookmarks.html
    exit_code         \* the exit status; -1 while the process runs

vars == <<input, data, pc, last_container, spaces, items_by_id, html_lines,
          total_folders, total_bookmarks, space_i, result, output_file, exit_code>>

-----------------------------------------------------------------------------
(* Bounds of the input families.                                           *)

MaxCids == 3          \* longest containerIDs sequence enumerated
MaxSpaces == 2        \* longest spaces list enumerated
MaxItems == 4         \* longest raw items array enumerated
MaxChildren == 2      \* longest childrenIds of the root folder enumerated
MaxTop == 3           \* most top-level items of one pinned container
RecursionLimit == 5   \* the interpreter's call-depth limit, scaled down

None == "<None>"

-----------------------------------------------------------------------------
(* Sequence helpers.                                                       *)

RECURSIVE Concat(_)
Concat(ss) == IF ss = <<>> THEN <<>> ELSE Head(ss) \o Concat(Tail(ss))

SeqsUpTo(S, n) == UNION {[1..k -> S] : k \in 0..n}

Range(s) == {s[i] : i \in DOMAIN s}

IsInjective(s) == \A i, j \in DOMAIN s : s[i] = s[j] => i = j

-----------------------------------------------------------------------------
(* Item classification and escaping.                                       *)

\* get_item_type: None when the item has no data, "folder" when data has a
\* "list" key, else "tab" when it has a "tab" key, else None.
get_item_type(item) ==
    IF "data" \notin item.keys THEN None
    ELSE IF "list" \in item.data.keys THEN "folder"
    ELSE IF "tab" \in item.data.keys THEN "tab"
    ELSE None

\* html.escape of one character (quote=True).
EscChar(c) ==
    CASE c = "&" -> "&amp;"
      [] c = "<" -> "&lt;"
      [] c = ">" -> "&gt;"
      [] c = "\"" -> "&quot;"
      [] c = "'" -> "&#x27;"
      [] OTHER -> c

\* escape_html_text: html.escape(str(text)) if text else ''.
escape_html_text(text) ==
    IF text = <<>> THEN <<>> ELSE [i \in DOMAIN text |-> EscChar(text[i])]

-----------------------------------------------------------------------------
(* The item dictionary: a sequence of items with pairwise distinct ids, in *)
(* insertion order (a Python dict keeps the position of a key's first      *)
(* insertion and the value of its last).                                   *)

HasKey(idx, id) == \E i \in DOMAIN idx : idx[i].id = id

Lookup(idx, id) == idx[CHOOSE i \in DOMAIN idx : idx[i].id = id]

DictSet(idx, item) ==
    IF HasKey(idx, item.id)
    THEN [i \in DOMAIN idx |-> IF idx[i].id = item.id THEN item ELSE idx[i]]
    ELSE Append(idx, item)

\* item.get('childrenIds', [])
GetChildren(item) == IF "childrenIds" \in item.keys THEN item.childrenIds ELSE <<>>

\* item.get('parentID')
GetParent(item) == IF "parentID" \in item.keys THEN item.parentID ELSE None

\* tab_data.get('savedURL', '')
GetUrl(item) ==
    IF "savedURL" \in item.data.tab.keys THEN item.data.tab.savedURL ELSE <<>>

\* child.get('title') or tab_data.get('savedTitle', '') or 'Untitled'
TabTitle(item) ==
    IF "title" \in item.keys /\ item.title # <<>> THEN item.title
    ELSE IF "savedTitle" \in item.data.tab.keys /\ item.data.tab.savedTitle # <<>>
         THEN item.data.tab.savedTitle
    ELSE <<"Untitled">>

\* item.get('title') or 'Untitled Folder'
FolderTitle(item) ==
    IF "title" \in item.keys /\ item.title # <<>> THEN item.title
    ELSE <<"Untitled Folder">>

-----------------------------------------------------------------------------
(* The folder flattener.                                                   *)

NoFolder == [isNone |-> TRUE, title |-> <<>>, tabs |-> <<>>]

\* The loop of get_folder_with_direct_tabs over childrenIds, from position k:
\* a child that is in the dictionary, is a tab and has a truthy savedURL
\* is appended as {title, url}.
RECURSIVE DirectTabsFrom(_, _, _, _)
DirectTabsFrom(children, k, idx, tabs) ==
    IF k > Len(children) THEN tabs
    ELSE LET child_id == children[k] IN
         IF HasKey(idx, child_id) /\ get_item_type(Lookup(idx, child_id)) = "tab"
         THEN LET child == Lookup(idx, child_id)
                  url == GetUrl(child)
                  title == TabTitle(child)
              IN  IF url # <<>>
                  THEN DirectTabsFrom(children, k + 1, idx,
                                      Append(tabs, [title |-> title, url |-> url]))
                  ELSE DirectTabsFrom(children, k + 1, idx, tabs)
         ELSE DirectTabsFrom(children, k + 1, idx, tabs)

\* The same loop without the "if url" test.
DirectTabsNoUrlTest(children, idx) ==
    LET ok == SelectSeq(children, LAMBDA c :
                  HasKey(idx, c) /\ get_item_type(Lookup(idx, c)) = "tab")
    IN  [i \in DOMAIN ok |-> [title |-> TabTitle(Lookup(idx, ok[i])),
                              url |-> GetUrl(Lookup(idx, ok[i]))]]

DirectTabs(children, idx) == DirectTabsFrom(children, 1, idx, <<>>)

\* get_folder_with_direct_tabs
get_folder_with_direct_tabs(item_id, idx) ==
    IF ~HasKey(idx, item_id) THEN NoFolder
    ELSE LET item == Lookup(idx, item_id) IN
         IF get_item_type(item) # "folder" THEN NoFolder
         ELSE [isNone |-> FALSE,
               title |-> FolderTitle(item),
               tabs |-> DirectTabs(GetChildren(item), idx)]

\* get_all_folders_flat(item_id, items_by_id, collected), entered at call
\* depth "depth".  The result is [err, collected]: err is the interpreter's
\* RecursionError, raised when a call would exceed the call-depth limit and
\* propagated through every enclosing call (the function catches nothing).
RECURSIVE get_all_folders_flat(_, _, _, _)
RECURSIVE FlatChildren(_, _, _, _, _)

\* The recursion with the depth limit swallowed: the call at the limit
\* returns what was collected instead of raising.
FlatSwallowLimit(item_id, idx, collected, depth) ==
    IF depth > RecursionLimit THEN [err |-> FALSE, collected |-> collected]
    ELSE IF ~HasKey(idx, item_id) THEN [err |-> FALSE, collected |-> collected]
    ELSE LET item == Lookup(idx, item_id) IN
         IF get_item_type(item) # "folder" THEN [err |-> FALSE, collected |-> collected]
         ELSE LET folder == get_folder_with_direct_tabs(item_id, idx)
                  c1 == IF ~folder.isNone /\ folder.tabs # <<>>
                        THEN Append(collected, folder) ELSE collected
              IN  FlatChildren(GetChildren(item), 1, idx, c1, depth)

\* The recursion with the folder appended after its subfolders.
FlatPostOrder(item_id, idx, collected, depth) ==
    IF depth > RecursionLimit THEN [err |-> TRUE, collected |-> collected]
    ELSE IF ~HasKey(idx, item_id) THEN [err |-> FALSE, collected |-> collected]
    ELSE LET item == Lookup(idx, item_id) IN
         IF get_item_type(item) # "folder" THEN [err |-> FALSE, collected |-> collected]
         ELSE LET folder == get_folder_with_direct_tabs(item_id, idx)
                  r == FlatChildren(GetChildren(item), 1, idx, collected, depth)
              IN  IF r.err THEN r
                  ELSE IF ~folder.isNone /\ folder.tabs # <<>>
                       THEN [err |-> FALSE, collected |-> Append(r.collected, folder)]
                       ELSE r

get_all_folders_flat(item_id, idx, collected, depth) ==
    IF depth > RecursionLimit THEN [err |-> TRUE, collected |-> collected]
    ELSE IF ~HasKey(idx, item_id) THEN [err |-> FALSE, collected |-> collected]
    ELSE LET item == Lookup(idx, item_id) IN
         IF get_item_type(item) # "folder" THEN [err |-> FALSE, collected |-> collected]
         ELSE LET folder == get_folder_with_direct_tabs(item_id, idx)
                  c1 == IF ~folder.isNone /\ folder.tabs # <<>>
                        THEN Append(collected, folder) ELSE collected
              IN  FlatChildren(GetChildren(item), 1, idx, c1, depth)

\* "for child_id in item.get('childrenIds', [])" of get_all_folders_flat,
\* from position k: recurse into the children that are folders.
FlatChildren(children, k, idx, collected, depth) ==
    IF k > Len(children) THEN [err |-> FALSE, collected |-> collected]
    ELSE LET child_id == children[k] IN
         IF HasKey(idx, child_id) /\ get_item_type(Lookup(idx, child_id)) = "folder"
         THEN LET r == get_all_folders_flat(child_id, idx, collected, depth + 1)
              IN  IF r.err THEN r
                  ELSE FlatChildren(children, k + 1, idx, r.collected, depth)
         ELSE FlatChildren(children, k + 1, idx, collected, depth)

-----------------------------------------------------------------------------
(* The space resolver and the index builder.                               *)

\* "for i, cid in enumerate(container_ids)" from 0-based position i, with
\* the value of space_info['pinned_container'] so far.
RECURSIVE PinnedScan(_, _, _)
PinnedScan(container_ids, i, pinned) ==
    IF i >= Len(container_ids) THEN pinned
    ELSE IF container_ids[i + 1] = "pinned" /\ i + 1 < Len(container_ids)
         THEN PinnedScan(container_ids, i + 1, container_ids[i + 2])
         ELSE PinnedScan(container_ids, i + 1, pinned)

\* The scan stopping at the first marker that has a following element.
PinnedFirstMatch(container_ids) ==
    IF \E i \in 1..(Len(container_ids) - 1) : container_ids[i] = "pinned"
    THEN container_ids[(CHOOSE i \in 1..(Len(container_ids) - 1) :
                          /\ container_ids[i] = "pinned"
                          /\ \A j \in 1..(i - 1) : container_ids[j] # "pinned") + 1]
    ELSE None

PinnedContainer(container_ids) == PinnedScan(container_ids, 0, None)

\* space.get('containerIDs', [])
GetContainerIDs(space) ==
    IF "containerIDs" \in space.keys THEN space.containerIDs ELSE <<>>

\* isinstance(space, dict) and 'title' in space
IsTitledSpace(space) == space.isDict /\ "title" \in space.keys

\* The space_info built from one titled space entry.
SpaceInfo(space) ==
    [id |-> space.id,
     title |-> space.title,
     pinned_container |-> PinnedContainer(GetContainerIDs(space))]

\* "for space in last_container.get('spaces', [])": space['id'] raises
\* KeyError on a titled entry without an id.
SpacesRaise(entries) ==
    \E i \in DOMAIN entries : IsTitledSpace(entries[i]) /\ "id" \notin entries[i].keys

SpaceInfos(entries) ==
    LET titled == SelectSeq(entries, IsTitledSpace)
    IN  [i \in DOMAIN titled |-> SpaceInfo(titled[i])]

\* "for i in range(0, len(items), 2)" from 0-based position i.
RECURSIVE BuildFrom(_, _, _)
BuildFrom(items, i, idx) ==
    IF i >= Len(items) THEN idx
    ELSE IF i + 1 < Len(items)
         THEN LET item_data == items[i + 2] IN
              IF item_data.isDict /\ "id" \in item_data.keys
              THEN BuildFrom(items, i + 2, DictSet(idx, item_data))
              ELSE BuildFrom(items, i + 2, idx)
         ELSE BuildFrom(items, i + 2, idx)

\* The loop inspecting items[i] instead of items[i + 1].
RECURSIVE BuildFromEven(_, _, _)
BuildFromEven(items, i, idx) ==
    IF i >= Len(items) THEN idx
    ELSE LET item_data == items[i + 1] IN
         IF item_data.isDict /\ "id" \in item_data.keys
         THEN BuildFromEven(items, i + 2, DictSet(idx, item_data))
         ELSE BuildFromEven(items, i + 2, idx)

BuildItemsByIdEven(items) == BuildFromEven(items, 0, <<>>)

BuildItemsById(items) == BuildFrom(items, 0, <<>>)

\* The ids of the items whose item.get('parentID') equals the pinned
\* container id, in dictionary order.
TopLevelItems(pinned_container_id, idx) ==
    LET top == SelectSeq(idx, LAMBDA item : GetParent(item) = pinned_container_id)
    IN  [i \in DOMAIN top |-> top[i].id]

-----------------------------------------------------------------------------
(* The serializer.  A line is <<indent, kind, a, b>>: indent in units of   *)
(* four blanks; kind "H3" (a = the escaped title), "A" (a = the escaped    *)
(* URL, b = the escaped title), "DL" for <DL><p>, "/DL" for </DL><p>, or   *)
(* one of the header's kinds.                                              *)

Line(indent, kind, a, b) == <<indent, kind, a, b>>

\* html_lines as first assigned: the fixed header, ending with the opening
\* <DL><p> (the text of the export date line is left out).
Header ==
    << Line(0, "DOCTYPE", <<>>, <<>>),
       Line(0, "COMMENT", <<>>, <<>>),
       Line(0, "DATE", <<>>, <<>>),
       Line(0, "META", <<>>, <<>>),
       Line(0, "TITLE", <<>>, <<>>),
       Line(0, "H1", <<>>, <<>>),
       Line(0, "DL", <<>>, <<>>) >>

AnchorLine(indent, tab) ==
    Line(indent, "A", escape_html_text(tab.url), escape_html_text(tab.title))

\* "for item_id in top_level_items" from position k: a folder's flattening
\* is appended to all_folders, a tab with a truthy savedURL to standalone_tabs.
RECURSIVE CollectTop(_, _, _, _, _)
CollectTop(top, k, idx, all_folders, standalone_tabs) ==
    IF k > Len(top)
    THEN [err |-> FALSE, all_folders |-> all_folders, standalone_tabs |-> standalone_tabs]
    ELSE LET item == Lookup(idx, top[k])
             item_type == get_item_type(item)
         IN  IF item_type = "folder"
             THEN LET r == get_all_folders_flat(top[k], idx, <<>>, 1) IN
                  IF r.err
                  THEN [err |-> TRUE, all_folders |-> all_folders,
                        standalone_tabs |-> standalone_tabs]
                  ELSE CollectTop(top, k + 1, idx, all_folders \o r.collected,
                                  standalone_tabs)
             ELSE IF item_type = "tab"
             THEN LET url == GetUrl(item)
                      title == TabTitle(item)
                  IN  IF url # <<>>
                      THEN CollectTop(top, k + 1, idx, all_folders,
                                      Append(standalone_tabs, [title |-> title, url |-> url]))
                      ELSE CollectTop(top, k + 1, idx, all_folders, standalone_tabs)
             ELSE CollectTop(top, k + 1, idx, all_folders, standalone_tabs)

\* "for tab in ..." from position k: one anchor line and one count per tab.
\* acc is [lines, folders, bookmarks].
RECURSIVE WriteTabs(_, _, _, _)
WriteTabs(tabs, k, indent, acc) ==
    IF k > Len(tabs) THEN acc
    ELSE WriteTabs(tabs, k + 1, indent,
                   [acc EXCEPT !.lines = Append(@, AnchorLine(indent, tabs[k])),
                               !.bookmarks = @ + 1])

\* "for folder in all_folders" from position k.
RECURSIVE WriteFolders(_, _, _)
WriteFolders(all_folders, k, acc) ==
    IF k > Len(all_folders) THEN acc
    ELSE LET folder == all_folders[k]
             a1 == [acc EXCEPT !.lines = @ \o
                        << Line(2, "H3", escape_html_text(folder.title), <<>>),
                           Line(2, "DL", <<>>, <<>>) >>]
             a2 == WriteTabs(folder.tabs, 1, 3, a1)
             a3 == [a2 EXCEPT !.lines = Append(@, Line(2, "/DL", <<>>, <<>>)),
                              !.folders = @ + 1]
         IN  WriteFolders(all_folders, k + 1, a3)

\* The block written with the standalone tabs before the folders.
WriteSpaceTabsFirst(space, all_folders, standalone_tabs, acc) ==
    LET a1 == [acc EXCEPT !.lines = @ \o
                   << Line(1, "H3", escape_html_text(space.title), <<>>),
                      Line(1, "DL", <<>>, <<>>) >>]
        a2 == WriteTabs(standalone_tabs, 1, 2, a1)
        a3 == WriteFolders(all_folders, 1, a2)
    IN  [a3 EXCEPT !.lines = Append(@, Line(1, "/DL", <<>>, <<>>))]

\* The lines of one space that has top-level items: heading, folders,
\* standalone tabs, closing.
WriteSpace(space, all_folders, standalone_tabs, acc) ==
    LET a1 == [acc EXCEPT !.lines = @ \o
                   << Line(1, "H3", escape_html_text(space.title), <<>>),
                      Line(1, "DL", <<>>, <<>>) >>]
        a2 == WriteFolders(all_folders, 1, a1)
        a3 == WriteTabs(standalone_tabs, 1, 2, a2)
    IN  [a3 EXCEPT !.lines = Append(@, Line(1, "/DL", <<>>, <<>>))]

\* One iteration of "for space in spaces": [err, lines, folders, bookmarks]
\* from the accumulators acc.
SpaceBlock(space, idx, acc) ==
    LET top_level_items == TopLevelItems(space.pinned_container, idx) IN
    IF top_level_items = <<>>
    THEN [err |-> FALSE, lines |-> acc.lines, folders |-> acc.folders,
          bookmarks |-> acc.bookmarks]
    ELSE LET c == CollectTop(top_level_items, 1, idx, <<>>, <<>>) IN
         IF c.err
         THEN [err |-> TRUE,
               lines |-> acc.lines \o
                   << Line(1, "H3", escape_html_text(space.title), <<>>),
                      Line(1, "DL", <<>>, <<>>) >>,
               folders |-> acc.folders, bookmarks |-> acc.bookmarks]
         ELSE LET w == WriteSpace(space, c.all_folders, c.standalone_tabs, acc)
              IN  [err |-> FALSE, lines |-> w.lines, folders |-> w.folders,
                   bookmarks |-> w.bookmarks]

-----------------------------------------------------------------------------
(* Input documents.                                                        *)

NoTab == [keys |-> {}, savedURL |-> <<>>, savedTitle |-> <<>>]
NoData == [keys |-> {}, tab |-> NoTab]

\* An element of the raw items array that is not a dict (a marker string).
Marker ==
    [isDict |-> FALSE, keys |-> {}, id |-> "", title |-> <<>>, parentID |-> "",
     childrenIds |-> <<>>, data |-> NoData]

MkTab(id, title, parent, url) ==
    [isDict |-> TRUE, keys |-> {"id", "title", "parentID", "data"}, id |-> id,
     title |-> title, parentID |-> parent, childrenIds |-> <<>>,
     data |-> [keys |-> {"tab"},
               tab |-> [keys |-> {"savedURL", "savedTitle"}, savedURL |-> url,
                        savedTitle |-> <<"s", "v">>]]]

MkFolder(id, title, parent, children) ==
    [isDict |-> TRUE, keys |-> {"id", "title", "parentID", "childrenIds", "data"},
     id |-> id, title |-> title, parentID |-> parent, childrenIds |-> children,
     data |-> [keys |-> {"list"}, tab |-> NoTab]]

\* An item with a parent and no data.
MkUnknown(id, parent) ==
    [isDict |-> TRUE, keys |-> {"id", "title", "parentID"}, id |-> id,
     title |-> <<"u">>, parentID |-> parent, childrenIds |-> <<>>, data |-> NoData]

\* The same item without its parentID field.
Orphan(item) == [item EXCEPT !.keys = @ \ {"parentID"}, !.parentID = ""]

\* A dict without an id.
NoIdItem == [MkTab("", <<"n">>, "c1", <<"h", "n">>) EXCEPT !.keys = @ \ {"id"}]

MkSpace(id, title, cids) ==
    [isDict |-> TRUE, keys |-> {"id", "title", "containerIDs"}, id |-> id,
     title |-> title, containerIDs |-> cids]

NonDictSpace == [isDict |-> FALSE, keys |-> {}, id |-> "", title |-> <<>>,
                 containerIDs |-> <<>>]

Work == MkSpace("s1", <<"W", "&", "k">>, <<"unpinned", "c0", "pinned", "c1">>)
Home == MkSpace("s2", <<"H">>, <<"pinned", "c2">>)
Play == MkSpace("s3", <<"P">>, <<"unpinned", "c3">>)
Untitled == [MkSpace("s4", <<>>, <<"pinned", "c1">>) EXCEPT !.keys = @ \ {"title"}]
NoIdSpace == [MkSpace("", <<"N">>, <<"pinned", "c1">>) EXCEPT !.keys = @ \ {"id"}]

\* The raw array of the given items: a marker before each.
RECURSIVE Interleave(_)
Interleave(items) ==
    IF items = <<>> THEN <<>> ELSE <<Marker, Head(items)>> \o Interleave(Tail(items))

MkContainer(sp, items) == [keys |-> {"spaces", "items"}, spaces |-> sp, items |-> items]

MkDoc(containers) == [keys |-> {"sidebar", "containers"}, containers |-> containers]

EmptyDoc == [keys |-> {}, containers |-> <<>>]

TabA == MkTab("a", <<"A">>, "c1", <<"h", "a">>)
TabB == MkTab("b", <<"B", "<">>, "c2", <<"h", "b">>)
TabP == MkTab("p", <<"P">>, "pinned", <<"h", "p">>)
TabO == Orphan(MkTab("o", <<"O">>, "", <<"h", "o">>))

\* A space whose containerIDs ranges over every sequence up to MaxCids.
PinnedDocs ==
    { MkDoc(<< MkContainer(<<NonDictSpace, MkSpace("s1", <<"W">>, cids)>>,
                           Interleave(<<TabA, TabB, TabP, TabO>>)) >>)
        : cids \in SeqsUpTo({"pinned", "c1", "c2"}, MaxCids) }

\* A space without a containerIDs field.
NoCidsDoc ==
    MkDoc(<< MkContainer(<< [MkSpace("s1", <<"W">>, <<>>) EXCEPT !.keys = @ \ {"containerIDs"}] >>,
                         Interleave(<<TabA, TabO>>)) >>)

\* An earlier container, which the export does not read.
Decoy == MkContainer(<<Home>>, Interleave(<<TabB>>))

\* The spaces list ranges over every sequence of entry kinds up to
\* MaxSpaces; the items hold a tab of c1 and, or not, a tab without parentID.
SpacesDocs ==
    { MkDoc(<< Decoy, MkContainer(sp, Interleave(IF orphan THEN <<TabA, TabO>> ELSE <<TabA>>)) >>)
        : sp \in SeqsUpTo({NonDictSpace, Untitled, Work, Home, Play, NoIdSpace}, MaxSpaces),
          orphan \in BOOLEAN }

TabA2 == MkTab("a", <<"A", "2">>, "c1", <<"h", "2">>)
TabB1 == MkTab("b", <<"B">>, "c1", <<"h", "b">>)

\* The raw items array ranges over every sequence of element kinds up to MaxItems.
IndexDocs ==
    { MkDoc(<< MkContainer(<<Work>>, items) >>)
        : items \in SeqsUpTo({Marker, NoIdItem, TabA, TabA2, TabB1}, MaxItems) }

\* Three folders: the childrenIds of F1 range over every sequence up to
\* MaxChildren, those of F2 and F3 over a few shapes (a chain, a shared
\* subfolder, a self loop, a cycle through F1 or F2, a missing id).
F2Children == { <<>>, <<"T2">>, <<"F3">>, <<"F3", "T2">>, <<"F1">>, <<"X", "T2", "F2">> }
F3Children == { <<>>, <<"T3">>, <<"F3">>, <<"T3", "F2">> }

TreeItems(c1, c2, c3) ==
    << MkFolder("F1", <<"F", "1">>, "c1", c1),
       MkFolder("F2", <<>>, "F1", c2),
       MkFolder("F3", <<"F", "3">>, "F1", c3),
       MkTab("T1", <<"t", "1">>, "F1", <<"h", "1">>),
       MkTab("T0", <<"t", "0">>, "F1", <<>>),
       MkTab("T2", <<>>, "F2", <<"h", "2">>),
       MkTab("T3", <<"t", ">">>, "F3", <<"h", "\"">>),
       MkUnknown("U", "F1") >>

TreeDocs ==
    { MkDoc(<< MkContainer(<<Work>>, Interleave(TreeItems(c1, c2, c3))) >>)
        : c1 \in SeqsUpTo({"F2", "F3", "T1", "T0", "U"}, MaxChildren),
          c2 \in F2Children, c3 \in F3Children }

\* The top-level items of c1 range over every sequence without repetition,
\* up to MaxTop, of: two folders, a tab, a tab with an empty savedURL, a tab
\* without savedURL and title, an item without data and one with empty data.
TabNoUrl ==
    [MkTab("S2", <<>>, "c1", <<>>) EXCEPT !.keys = @ \ {"title"},
                                          !.data.tab.keys = {"savedTitle"}]
EmptyData == [MkUnknown("U2", "c1") EXCEPT !.keys = @ \cup {"data"}]

TopKinds ==
    { MkFolder("FA", <<"F", "A">>, "c1", <<"X1", "FB", "X0">>),
      MkFolder("FC", <<"F", "C">>, "c1", <<"U1", "X2">>),
      MkTab("S1", <<"S", "'">>, "c1", <<"h", "s">>),
      MkTab("S0", <<"S", "0">>, "c1", <<>>),
      TabNoUrl,
      MkUnknown("U1", "c1"),
      EmptyData }

TopChildren ==
    << MkFolder("FB", <<"F", "B">>, "FA", <<"X3">>),
       MkTab("X1", <<"x", "1">>, "FA", <<"h", "1">>),
       MkTab("X0", <<"x", "0">>, "FA", <<>>),
       MkTab("X2", <<"x", "2">>, "FC", <<"h", "2">>),
       MkTab("X3", <<"x", "3">>, "FB", <<"h", "3">>),
       TabB >>

TopDocs ==
    { MkDoc(<< MkContainer(<<Work, Home>>, Interleave(top \o TopChildren)) >>)
        : top \in {t \in SeqsUpTo(TopKinds, MaxTop) : IsInjective(t)} }

\* Documents without the expected structure.
BareDocs ==
    { EmptyDoc,
      [keys |-> {"sidebar"}, containers |-> <<>>],
      MkDoc(<<>>),
      MkDoc(<< [MkContainer(<<>>, Interleave(<<TabA>>)) EXCEPT !.keys = {"items"}] >>),
      MkDoc(<< Decoy, MkContainer(<<>>, <<>>) >>),
      MkDoc(<< [MkContainer(<<Work>>, <<>>) EXCEPT !.keys = {"spaces"}] >>) }

Docs == PinnedDocs \cup {NoCidsDoc} \cup SpacesDocs \cup IndexDocs \cup TreeDocs
            \cup TopDocs \cup BareDocs

-----------------------------------------------------------------------------
(* main and export_bookmarks.                                              *)

NoResult == [isNone |-> TRUE, html |-> <<>>, folders |-> 0, bookmarks |-> 0, spaces |-> 0]
NoFile == [written |-> FALSE, content |-> <<>>]
NoContainer == [keys |-> {}, spaces |-> <<>>, items |-> <<>>]

\* data.get('sidebar', {}).get('containers', [])
GetContainers(doc) ==
    IF {"sidebar", "containers"} \subseteq doc.keys THEN doc.containers ELSE <<>>

\* last_container.get('spaces', []), last_container.get('items', [])
GetSpaces(container) == IF "spaces" \in container.keys THEN container.spaces ELSE <<>>
GetItems(container) == IF "items" \in container.keys THEN container.items ELSE <<>>

Init ==
    /\ \/ input = "ok" /\ data \in Docs
       \/ input \in {"missing", "invalid"} /\ data = EmptyDoc
    /\ pc = "main"
    /\ last_container = NoContainer
    /\ spaces = <<>>
    /\ items_by_id = <<>>
    /\ html_lines = <<>>
    /\ total_folders = 0
    /\ total_bookmarks = 0
    /\ space_i = 1
    /\ result = NoResult
    /\ output_file = NoFile
    /\ exit_code = -1

exportVars == <<last_container, spaces, items_by_id, html_lines, total_folders,
                total_bookmarks, space_i>>

\* main: "if not input_path.exists(): sys.exit(1)".
CheckInputPath ==
    /\ pc = "main"
    /\ IF input = "missing"
       THEN pc' = "exit" /\ exit_code' = 1
       ELSE pc' = "load" /\ UNCHANGED exit_code
    /\ UNCHANGED <<input, data, exportVars, result, output_file>>

\* main: load_arc_data; a JSONDecodeError goes to the except clause.
LoadArcData ==
    /\ pc = "load"
    /\ pc' = IF input = "invalid" THEN "except" ELSE "containers"
    /\ UNCHANGED <<input, data, exportVars, result, output_file, exit_code>>

\* export_bookmarks: the containers, "return None" when there are none,
\* else the last one.
TakeLastContainer ==
    /\ pc = "containers"
    /\ LET containers == GetContainers(data) IN
       IF containers = <<>>
       THEN /\ result' = NoResult
            /\ pc' = "check_result"
            /\ UNCHANGED last_container
       ELSE /\ last_container' = containers[Len(containers)]
            /\ pc' = "spaces"
            /\ UNCHANGED result
    /\ UNCHANGED <<input, data, spaces, items_by_id, html_lines, total_folders,
                   total_bookmarks, space_i, output_file, exit_code>>

\* The loop building spaces without the "if not spaces" test after it.
ResolveSpacesNoCheck ==
    /\ pc = "spaces"
    /\ LET entries == GetSpaces(last_container) IN
       IF SpacesRaise(entries)
       THEN pc' = "except" /\ UNCHANGED <<spaces, result>>
       ELSE /\ spaces' = SpaceInfos(entries)
            /\ pc' = "index" /\ UNCHANGED result
    /\ UNCHANGED <<input, data, last_container, items_by_id, html_lines, total_folders,
                   total_bookmarks, space_i, output_file, exit_code>>

\* export_bookmarks: the loop building spaces (KeyError on a titled entry
\* without id), then "if not spaces: return None".
ResolveSpaces ==
    /\ pc = "spaces"
    /\ LET entries == GetSpaces(last_container) IN
       IF SpacesRaise(entries)
       THEN pc' = "except" /\ UNCHANGED <<spaces, result>>
       ELSE /\ spaces' = SpaceInfos(entries)
            /\ IF spaces' = <<>>
               THEN result' = NoResult /\ pc' = "check_result"
               ELSE pc' = "index" /\ UNCHANGED result
    /\ UNCHANGED <<input, data, last_container, items_by_id, html_lines, total_folders,
                   total_bookmarks, space_i, output_file, exit_code>>

\* export_bookmarks: the item dictionary, the header, the counters.
BuildIndex ==
    /\ pc = "index"
    /\ items_by_id' = BuildItemsById(GetItems(last_container))
    /\ html_lines' = Header
    /\ total_folders' = 0
    /\ total_bookmarks' = 0
    /\ space_i' = 1
    /\ pc' = "space_loop"
    /\ UNCHANGED <<input, data, last_container, spaces, result, output_file, exit_code>>

\* export_bookmarks: one iteration of "for space in spaces".
ProcessSpace ==
    /\ pc = "space_loop"
    /\ space_i <= Len(spaces)
    /\ LET b == SpaceBlock(spaces[space_i], items_by_id,
                           [lines |-> html_lines, folders |-> total_folders,
                            bookmarks |-> total_bookmarks])
       IN  /\ html_lines' = b.lines
           /\ total_folders' = b.folders
           /\ total_bookmarks' = b.bookmarks
           /\ IF b.err
              THEN pc' = "except" /\ UNCHANGED space_i
              ELSE pc' = "space_loop" /\ space_i' = space_i + 1
    /\ UNCHANGED <<input, data, last_container, spaces, items_by_id, result,
                   output_file, exit_code>>

\* export_bookmarks: the closing line and the returned record.
ReturnResult ==
    /\ pc = "space_loop"
    /\ space_i > Len(spaces)
    /\ html_lines' = Append(html_lines, Line(0, "/DL", <<>>, <<>>))
    /\ result' = [isNone |-> FALSE, html |-> html_lines',
                  folders |-> total_folders, bookmarks |-> total_bookmarks,
                  spaces |-> Len(spaces)]
    /\ pc' = "check_result"
    /\ UNCHANGED <<input, data, last_container, spaces, items_by_id, total_folders,
                   total_bookmarks, space_i, output_file, exit_code>>

\* main: "if not result: sys.exit(1)".
CheckResult ==
    /\ pc = "check_result"
    /\ IF result.isNone
       THEN pc' = "exit" /\ exit_code' = 1
       ELSE pc' = "write" /\ UNCHANGED exit_code
    /\ UNCHANGED <<input, data, exportVars, result, output_file>>

\* main: the output file is written, the counts are reported, main returns.
WriteOutput ==
    /\ pc = "write"
    /\ output_file' = [written |-> TRUE, content |-> result.html]
    /\ pc' = "exit"
    /\ exit_code' = 0
    /\ UNCHANGED <<input, data, exportVars, result>>

\* main: "except json.JSONDecodeError" and "except Exception": sys.exit(1).
HandleException ==
    /\ pc = "except"
    /\ pc' = "exit"
    /\ exit_code' = 1
    /\ UNCHANGED <<input, data, exportVars, result, output_file>>

Next ==
    \/ CheckInputPath
    \/ LoadArcData
    \/ TakeLastContainer
    \/ ResolveSpaces
    \/ BuildIndex
    \/ ProcessSpace
    \/ ReturnResult
    \/ CheckResult
    \/ WriteOutput
    \/ HandleException

Spec == Init /\ [][Next]_vars

\* The interpreter runs the single thread to its end: a step that can be
\* taken is taken.  This is weak fairness of every action; for BuildIndex
\* and ProcessSpace, whose steps always change pc or space_i, the enabling
\* condition of WF is written out as the action's guard.
LightNext ==
    \/ CheckInputPath
    \/ LoadArcData
    \/ TakeLastContainer
    \/ ResolveSpaces
    \/ ReturnResult
    \/ CheckResult
    \/ WriteOutput
    \/ HandleException

FairSpec ==
    /\ Spec
    /\ WF_vars(LightNext)
    /\ ([]<>(pc # "index") \/ []<><<BuildIndex>>_vars)
    /\ ([]<>(~(pc = "space_loop" /\ space_i <= Len(spaces))) \/ []<><<ProcessSpace>>_vars)

-----------------------------------------------------------------------------
(* Vocabulary of the properties.                                           *)

\* export_bookmarks has returned a record.
Returned == ~result.isNone

\* The dictionary has just been built and no space is processed yet.
IndexBuilt == pc = "space_loop" /\ space_i = 1

\* The titled entries of the last container, one per element of spaces.
TitledEntries == SelectSeq(GetSpaces(last_container), IsTitledSpace)

IsSpaceHeading(l) == l[1] = 1 /\ l[2] = "H3"
IsFolderHeading(l) == l[1] = 2 /\ l[2] = "H3"
IsStandaloneAnchor(l) == l[1] = 2 /\ l[2] = "A"
IsAnchor(l) == l[2] = "A"

IsFolderId(idx, id) == HasKey(idx, id) /\ get_item_type(Lookup(idx, id)) = "folder"
IsTabId(idx, id) == HasKey(idx, id) /\ get_item_type(Lookup(idx, id)) = "tab"

\* The positions of "pinned" in container_ids that have a following element.
MarkerPositions(container_ids) ==
    {i \in 1..(Len(container_ids) - 1) : container_ids[i] = "pinned"}

SetMax(S) == CHOOSE m \in S : \A n \in S : n <= m

\* The folders listed, as folders, in the childrenIds of folder f.
FolderChildren(idx, f) == {c \in Range(GetChildren(Lookup(idx, f))) : IsFolderId(idx, c)}

RECURSIVE ReachFrom(_, _, _)
ReachFrom(idx, frontier, seen) ==
    IF frontier \subseteq seen THEN seen
    ELSE ReachFrom(idx, UNION {FolderChildren(idx, f) : f \in frontier}, seen \cup frontier)

\* The folders reachable from folder f by one or more folder links.
Descendants(idx, f) == ReachFrom(idx, FolderChildren(idx, f), {})

\* No folder reachable from f, f included, is its own descendant.
AcyclicFrom(idx, f) ==
    \A g \in {f} \cup Descendants(idx, f) : g \notin Descendants(idx, g)

\* The traversal order of the folders under f: f, then the listings of its
\* folder children in childrenIds order (defined on acyclic structures).
RECURSIVE PreOrder(_, _)
PreOrder(idx, f) ==
    LET subs == SelectSeq(GetChildren(Lookup(idx, f)), LAMBDA c : IsFolderId(idx, c))
    IN  <<f>> \o Concat([k \in DOMAIN subs |-> PreOrder(idx, subs[k])])

\* The direct tabs of folder f that have a non-empty URL, as {title, url}.
KeptTabs(idx, f) ==
    LET kept == SelectSeq(GetChildren(Lookup(idx, f)),
                          LAMBDA c : IsTabId(idx, c) /\ GetUrl(Lookup(idx, c)) # <<>>)
    IN  [k \in DOMAIN kept |-> [title |-> TabTitle(Lookup(idx, kept[k])),
                                url |-> GetUrl(Lookup(idx, kept[k]))]]

\* The dictionary without its i-th entry.
RemoveAt(idx, i) == SubSeq(idx, 1, i - 1) \o SubSeq(idx, i + 1, Len(idx))

\* export_bookmarks from the header on, for the given spaces and dictionary:
\* the fold of SpaceBlock over the spaces, then the closing line.
RECURSIVE ExportFrom(_, _, _, _)
ExportFrom(sp, k, idx, acc) ==
    IF k > Len(sp)
    THEN [err |-> FALSE, lines |-> Append(acc.lines, Line(0, "/DL", <<>>, <<>>)),
          folders |-> acc.folders, bookmarks |-> acc.bookmarks]
    ELSE LET b == SpaceBlock(sp[k], idx, acc) IN
         IF b.err THEN b
         ELSE ExportFrom(sp, k + 1, idx,
                         [lines |-> b.lines, folders |-> b.folders, bookmarks |-> b.bookmarks])

ExportOf(sp, idx) == ExportFrom(sp, 1, idx, [lines |-> Header, folders |-> 0, bookmarks |-> 0])

-----------------------------------------------------------------------------
(* C1.  The returned 'spaces' counter equals the number of space heading   *)
(* blocks written to the output.                                           *)
C1_SpacesCountsEmitted ==
    Returned => result.spaces = Len(SelectSeq(result.html, IsSpaceHeading))

(* C2.  The iteration of the space loop on a space whose containerIDs has  *)
(* no "pinned" marker with a following element finds no top-level item,    *)
(* writes nothing and does not fail.                                       *)
C2_UnpinnedSpaceOmitted ==
    [][ ( /\ pc = "space_loop"
          /\ space_i <= Len(spaces)
          /\ MarkerPositions(GetContainerIDs(TitledEntries[space_i])) = {} )
        => ( /\ TopLevelItems(spaces[space_i].pinned_container, items_by_id) = <<>>
             /\ html_lines' = html_lines
             /\ pc' = "space_loop" ) ]_vars

(* C3.  Every item is classified as exactly one of folder, tab, unknown by *)
(* the keys of its data, and removing an unknown item from the index       *)
(* leaves the emitted lines and the folder and bookmark counters the same. *)
C3_UnknownContributesNothing ==
    /\ \A i \in DOMAIN items_by_id :
          LET item == items_by_id[i]
              t == get_item_type(item)
          IN  /\ t \in {"folder", "tab", None}
              /\ t = "folder" <=> ("data" \in item.keys /\ "list" \in item.data.keys)
              /\ t = "tab" <=> ( /\ "data" \in item.keys /\ "tab" \in item.data.keys
                                 /\ "list" \notin item.data.keys )
    /\ Returned =>
          \A i \in DOMAIN items_by_id :
              get_item_type(items_by_id[i]) = None =>
                  LET e == ExportOf(spaces, RemoveAt(items_by_id, i))
                  IN  /\ ~e.err
                      /\ e.lines = result.html
                      /\ e.folders = result.folders
                      /\ e.bookmarks = result.bookmarks

\* The document has no containers, or its last container no titled space.
NoSpacesFound ==
    LET containers == GetContainers(data) IN
    \/ containers = <<>>
    \/ SelectSeq(GetSpaces(containers[Len(containers)]), IsTitledSpace) = <<>>

\* What holds of the file and the result in every state.
NothingWrittenOnFailure ==
    /\ (input = "ok" /\ NoSpacesFound) =>
          /\ pc \in {"main", "load", "containers", "spaces", "check_result", "exit"}
          /\ result.isNone
          /\ ~output_file.written
          /\ pc = "exit" => exit_code = 1
    /\ output_file.written =>
          /\ Returned
          /\ output_file.content = result.html
          /\ result.html[Len(result.html)] = Line(0, "/DL", <<>>, <<>>)
          /\ pc = "exit" /\ exit_code = 0
    /\ (pc = "exit" /\ exit_code # 0) => ~output_file.written

(* C4.  A document without containers, or whose last container has no    *)
(* titled space record, makes export_bookmarks return None: the export     *)
(* never goes on to the index or the file, and the process ends with       *)
(* status 1.  On every run the file, once written, holds the html of a     *)
(* returned result that ends with the closing line, and the status is 0.   *)
C4_FailureWritesNothing ==
    /\ []NothingWrittenOnFailure
    /\ (input = "ok" /\ NoSpacesFound) ~> (pc = "exit" /\ exit_code = 1)

\* The run of a document whose last container lists spaces, none of them
\* a titled record, has ended.
C4_Witness ==
    /\ pc = "exit" /\ exit_code = 1 /\ input = "ok"
    /\ GetContainers(data) # <<>>
    /\ GetSpaces(last_container) # <<>>
    /\ NoSpacesFound
    /\ ~output_file.written

(* C5.  Every anchor line of a returned document has a non-empty URL and   *)
(* is the entry of a tab of the index whose savedURL is non-empty; the     *)
(* 'bookmarks' value is the number of anchor lines and the 'folders' value *)
(* the number of folder heading lines.                                     *)
C5_NoEmptyUrlAndCounts ==
    Returned =>
        /\ \A k \in DOMAIN result.html :
              IsAnchor(result.html[k]) =>
                  /\ result.html[k][3] # <<>>
                  /\ \E i \in DOMAIN items_by_id :
                        /\ get_item_type(items_by_id[i]) = "tab"
                        /\ GetUrl(items_by_id[i]) # <<>>
                        /\ result.html[k][3] = escape_html_text(GetUrl(items_by_id[i]))
                        /\ result.html[k][4] = escape_html_text(TabTitle(items_by_id[i]))
        /\ result.bookmarks = Len(SelectSeq(result.html, IsAnchor))
        /\ result.folders = Len(SelectSeq(result.html, IsFolderHeading))

\* A returned document whose index has a top-level tab and a folder's
\* child tab with empty URLs, the folder being emitted.
C5_Witness ==
    /\ Returned
    /\ result.folders >= 1
    /\ result.bookmarks >= 2
    /\ \E i \in DOMAIN items_by_id, k \in DOMAIN spaces :
          /\ get_item_type(items_by_id[i]) = "tab"
          /\ GetUrl(items_by_id[i]) = <<>>
          /\ GetParent(items_by_id[i]) = spaces[k].pinned_container
    /\ \E i \in DOMAIN items_by_id, k \in DOMAIN spaces :
          /\ get_item_type(items_by_id[i]) = "folder"
          /\ GetParent(items_by_id[i]) = spaces[k].pinned_container
          /\ KeptTabs(items_by_id, items_by_id[i].id) # <<>>
          /\ \E c \in Range(GetChildren(items_by_id[i])) :
                IsTabId(items_by_id, c) /\ GetUrl(Lookup(items_by_id, c)) = <<>>

\* The flat folders of the traversal order under f that have kept tabs.
ExpectedFlat(idx, f) ==
    LET kept == SelectSeq(PreOrder(idx, f), LAMBDA g : KeptTabs(idx, g) # <<>>)
    IN  [k \in DOMAIN kept |->
            [isNone |-> FALSE,
             title |-> FolderTitle(Lookup(idx, kept[k])),
             tabs |-> KeptTabs(idx, kept[k])]]

(* C6.  For every folder of the index under which the folder structure is  *)
(* acyclic, get_all_folders_flat returns the folders of the traversal      *)
(* order (the folder, then its subfolders' listings in childrenIds order)  *)
(* that have at least one direct tab with a non-empty URL, each with its   *)
(* title and its own direct tabs.                                          *)
C6_FlatIsFilteredPreOrder ==
    IndexBuilt =>
        \A i \in DOMAIN items_by_id :
            LET f == items_by_id[i].id IN
            (IsFolderId(items_by_id, f) /\ AcyclicFrom(items_by_id, f)) =>
                get_all_folders_flat(f, items_by_id, <<>>, 1)
                    = [err |-> FALSE, collected |-> ExpectedFlat(items_by_id, f)]

\* A folder without kept tabs whose listing has two folders or more, under
\* which a subfolder is listed by two parents.
C6_Witness ==
    /\ IndexBuilt
    /\ \E i \in DOMAIN items_by_id :
          LET f == items_by_id[i].id IN
          /\ IsFolderId(items_by_id, f)
          /\ AcyclicFrom(items_by_id, f)
          /\ KeptTabs(items_by_id, f) = <<>>
          /\ Len(get_all_folders_flat(f, items_by_id, <<>>, 1).collected) >= 3
          /\ ~IsInjective(PreOrder(items_by_id, f))

(* C7.  For every resolved space, pinned_container is set exactly when     *)
(* containerIDs has a "pinned" with a following element, and it is then    *)
(* the element that follows the last such "pinned".                        *)
C7_PinnedFollowsMarker ==
    pc \in {"index", "space_loop"} =>
        \A k \in DOMAIN spaces :
            LET cids == GetContainerIDs(TitledEntries[k])
                at == MarkerPositions(cids)
            IN  /\ spaces[k].pinned_container # None <=> at # {}
                /\ at # {} => spaces[k].pinned_container = cids[SetMax(at) + 1]
                /\ spaces[k].id = TitledEntries[k].id
                /\ spaces[k].title = TitledEntries[k].title

\* A resolved space whose containerIDs holds "pinned" twice, the second
\* time as the last element.
C7_Witness ==
    /\ pc = "index"
    /\ \E k \in DOMAIN spaces :
          LET cids == GetContainerIDs(TitledEntries[k]) IN
          /\ Len(cids) = 3
          /\ cids[1] = "pinned" /\ cids[3] = "pinned"
          /\ spaces[k].pinned_container = cids[2]


\* The 1-based positions of the raw array that hold the second element of a
\* pair (0-based 2k+1) and a record with an id.
PairedRecords(items) ==
    {p \in DOMAIN items : p % 2 = 0 /\ items[p].isDict /\ "id" \in items[p].keys}

AfterIndex == pc \in {"space_loop", "except", "check_result", "write", "exit"}

IndexHoldsLastPerId ==
    LET items == GetItems(last_container)
        at == PairedRecords(items)
    IN  /\ IsInjective([i \in DOMAIN items_by_id |-> items_by_id[i].id])
        /\ {items_by_id[i].id : i \in DOMAIN items_by_id} = {items[p].id : p \in at}
        /\ \A i \in DOMAIN items_by_id :
              items_by_id[i] = items[SetMax({p \in at : items[p].id = items_by_id[i].id})]

(* C8.  The index holds one entry per id carried by a record at a         *)
(* position 2k+1 of the raw array: the last such record with that id.      *)
(* Records at positions 2k and a trailing unpaired element are not read.   *)
(* Once built, the index is not modified.                                  *)
C8_IndexLastWins ==
    /\ [](IndexBuilt => IndexHoldsLastPerId)
    /\ [][AfterIndex => items_by_id' = items_by_id]_vars

(* C8 as stated: the index holds exactly the records at positions 2k+1    *)
(* of the raw array that carry an id.                                      *)
C8_IndexHoldsEveryPairedRecord ==
    IndexBuilt =>
        LET items == GetItems(last_container) IN
        {items_by_id[i] : i \in DOMAIN items_by_id}
            = {items[p] : p \in PairedRecords(items)}

\* An index built from an array where two records at positions 2k+1 share
\* an id and a record with an id stands at a position 2k.
C8_Witness ==
    /\ IndexBuilt
    /\ LET items == GetItems(last_container) IN
       /\ \E p, q \in PairedRecords(items) : p < q /\ items[p].id = items[q].id
                                              /\ items[p] # items[q]
       /\ \E p \in DOMAIN items : p % 2 = 1 /\ items[p].isDict /\ "id" \in items[p].keys
                                   /\ ~HasKey(items_by_id, items[p].id)
       /\ Len(items_by_id) = 1

\* The heading and anchors of each flat folder, in order.
FolderContent(folders) ==
    Concat([j \in DOMAIN folders |->
              << Line(2, "H3", escape_html_text(folders[j].title), <<>>) >>
              \o [t \in DOMAIN folders[j].tabs |-> AnchorLine(3, folders[j].tabs[t])]])

\* The headings and anchors of one space: nothing when it has no top-level item.
ExpectedSpace(space, idx) ==
    LET top == TopLevelItems(space.pinned_container, idx)
        topFolders == SelectSeq(top, LAMBDA id : IsFolderId(idx, id))
        topTabs == SelectSeq(top, LAMBDA id : IsTabId(idx, id) /\ GetUrl(Lookup(idx, id)) # <<>>)
    IN  IF top = <<>> THEN <<>>
        ELSE << Line(1, "H3", escape_html_text(space.title), <<>>) >>
             \o Concat([k \in DOMAIN topFolders |->
                   FolderContent(get_all_folders_flat(topFolders[k], idx, <<>>, 1).collected)])
             \o [k \in DOMAIN topTabs |->
                   Line(2, "A", escape_html_text(GetUrl(Lookup(idx, topTabs[k]))),
                        escape_html_text(TabTitle(Lookup(idx, topTabs[k]))))]

\* The lines from position k on nest properly when read at depth d.
RECURSIVE Nested(_, _, _)
Nested(lines, k, d) ==
    IF k > Len(lines) THEN d = 0
    ELSE LET l == lines[k] IN
         CASE l[2] = "DL" ->
                 /\ l[1] = d
                 /\ d > 0 => (lines[k - 1][2] = "H3" /\ lines[k - 1][1] = d)
                 /\ Nested(lines, k + 1, d + 1)
           [] l[2] = "/DL" -> d > 0 /\ l[1] = d - 1 /\ Nested(lines, k + 1, d - 1)
           [] l[2] = "H3" ->
                 /\ l[1] = d /\ d \in {1, 2}
                 /\ k < Len(lines) /\ lines[k + 1][2] = "DL"
                 /\ Nested(lines, k + 1, d)
           [] l[2] = "A" -> l[1] = d /\ d \in {2, 3} /\ Nested(lines, k + 1, d)
           [] OTHER -> d = 0 /\ Nested(lines, k + 1, d)

(* C9.  In a returned document the headings and anchors are, space by      *)
(* space: the space heading, then the folders of the flattening of each    *)
(* top-level folder in top-level order, each heading followed by its       *)
(* anchors, then the anchors of the top-level tabs in top-level order; no  *)
(* standalone anchor precedes a folder heading of the same space; every    *)
(* <DL><p> is closed at its own depth, spaces at depth 1, folders at 2.    *)
C9_FoldersThenTabs ==
    Returned =>
        /\ SelectSeq(result.html, LAMBDA l : l[2] \in {"H3", "A"})
              = Concat([k \in DOMAIN spaces |-> ExpectedSpace(spaces[k], items_by_id)])
        /\ \A i, j \in DOMAIN result.html :
              (i < j /\ IsStandaloneAnchor(result.html[i]) /\ IsFolderHeading(result.html[j]))
                  => \E k \in i..j : IsSpaceHeading(result.html[k])
        /\ Nested(result.html, 1, 0)

\* A returned document with a space whose top-level items are, in this
\* order, a kept tab, a folder with content, a kept tab or folder again.
C9_Witness ==
    /\ Returned
    /\ \E k \in DOMAIN spaces :
          LET top == TopLevelItems(spaces[k].pinned_container, items_by_id) IN
          \E i, j \in DOMAIN top :
              /\ i < j
              /\ IsTabId(items_by_id, top[i]) /\ GetUrl(Lookup(items_by_id, top[i])) # <<>>
              /\ IsFolderId(items_by_id, top[j])
              /\ Len(get_all_folders_flat(top[j], items_by_id, <<>>, 1).collected) >= 2
    /\ Len(SelectSeq(result.html, IsSpaceHeading)) >= 2


\* A top-level folder of a resolved space under which a folder is its own
\* descendant.
CyclicTopFolder ==
    \E k \in DOMAIN spaces :
        \E id \in Range(TopLevelItems(spaces[k].pinned_container, items_by_id)) :
            IsFolderId(items_by_id, id) /\ ~AcyclicFrom(items_by_id, id)

(* C10.  get_all_folders_flat returns on every folder under which the      *)
(* folder structure is acyclic, and on a folder that has a descendant      *)
(* which is its own descendant it raises RecursionError at the call-depth  *)
(* limit; an export that flattens such a folder ends with status 1 and no  *)
(* file, and every run of the export ends.                                 *)
C10_RaisesExactlyOnCycles ==
    /\ [](IndexBuilt =>
            \A i \in DOMAIN items_by_id :
                LET f == items_by_id[i].id IN
                IsFolderId(items_by_id, f) =>
                    (get_all_folders_flat(f, items_by_id, <<>>, 1).err
                        <=> ~AcyclicFrom(items_by_id, f)))
    /\ []((AfterIndex /\ CyclicTopFolder) =>
            /\ pc \in {"space_loop", "except", "exit"}
            /\ ~output_file.written
            /\ pc = "exit" => exit_code = 1)
    /\ <>(pc = "exit")

(* C10 as stated: the export of a document with a folder that is its own  *)
(* descendant never ends.                                                  *)
C10_CycleNeverEnds == (AfterIndex /\ CyclicTopFolder) => pc # "exit"

\* The export of a document with a cycle through two folders has ended.
C10_Witness ==
    /\ pc = "exit" /\ exit_code = 1
    /\ CyclicTopFolder
    /\ \E i \in DOMAIN items_by_id :
          LET f == items_by_id[i].id IN
          /\ IsFolderId(items_by_id, f)
          /\ f \in Descendants(items_by_id, f)
          /\ f \notin FolderChildren(items_by_id, f)

=============================================================================
